---- MODULE Spec2Model ----
(***************************************************************************)
(* A model of open3d::geometry::KnnFaiss (src/Open3D/Geometry/KnnFaiss.cpp):*)
(* the nearest-neighbour adapter over a faiss flat L2 index.               *)
(*                                                                         *)
(* Numbers.  A double of the caller's matrix is a small non-negative       *)
(* integer.  A 32-bit float is kept in fixed point, in units of 1/FScale,  *)
(* and a squared distance in units of 1/FScale2; every float the model     *)
(* meets is a multiple of 1/FScale, so the arithmetic is exact.            *)
(***************************************************************************)
EXTENDS Integers, Sequences, FiniteSets, TLC

VARIABLES
    dimension_,      \* KnnFaiss::dimension_
    dataset_size_,   \* KnnFaiss::dataset_size_
    data_,           \* KnnFaiss::data_, the flat float buffer
    index,           \* KnnFaiss::index, the owned faiss::IndexFlatL2 (or null)
    pc,              \* "idle": no call in progress; "returned": a call has just returned
    op,              \* the member function that has just returned
    arg,             \* its arguments
    ok,              \* the bool an ingestion returned
    ret,             \* the int a search returned
    indices,         \* the entries of the caller's indices buffer written by the call
    distance2,       \* the entries of the caller's distance2 buffer written by the call
    backend_calls,   \* how many times the call invoked index->search / index->range_search
    source,          \* history: the matrix of the last ingestion that returned true
    ever_built,      \* history: some ingestion on this instance has returned true
    empty_failed     \* history: an empty ingestion failed and none has succeeded since

vars == <<dimension_, dataset_size_, data_, index, pc, op, arg, ok, ret,
          indices, distance2, backend_calls, source, ever_built, empty_failed>>

object == <<dimension_, dataset_size_, data_, index>>

(***************************************************************************)
(* Bounds of the model and constants of the program.                       *)
(***************************************************************************)
\* The most points (matrix columns) an ingested data set holds.
MaxPts == 3

\* The largest search radius a caller passes.
MaxRadius == 2

\* The row count of a geometry's point matrix (the literal 3 of SetGeometry).
PointDim == 3

\* The failure sentinel of the three search functions.
Fail == -1

\* SearchRadius's return value on success.
RadiusDone == 1

\* sizeof(float), the element size SetRawData's memcpy counts in.
SizeofFloat == 4

\* sizeof(double), the element size of Eigen::MatrixXd, the memcpy's source.
SizeofDouble == 8

\* The label faiss writes where fewer than k points exist.
NoLabel == -1

\* Stands for the +infinity faiss writes as the distance of a missing neighbour
\* (no squared distance is negative).
HugeDistance == -1

RECURSIVE Pow2(_)
Pow2(n) == IF n <= 0 THEN 1 ELSE 2 * Pow2(n - 1)

RECURSIVE Log2(_)
Log2(v) == IF v < 2 THEN 0 ELSE 1 + Log2(v \div 2)

\* Fixed-point resolution of a float, and of a squared distance.
FScale == Pow2(4)
FScale2 == FScale * FScale

(***************************************************************************)
(* IEEE-754 storage, little-endian: what a double's bytes are, and what a  *)
(* float read from four of them is.                                        *)
(***************************************************************************)
\* The high 32-bit word of the binary64 of the integer v >= 0: 11 exponent bits
\* (bias 1023) over the top 20 mantissa bits.
DoubleHiWord(v) ==
    IF v = 0 THEN 0
    ELSE LET e == Log2(v)
         IN  (1023 + e) * Pow2(20) + ((v - Pow2(e)) * Pow2(20)) \div Pow2(e)

\* The low 32-bit word of the binary64 of the integer v, 0 <= v < 2^21: the low
\* mantissa bits, all zero.
DoubleLoWord(v) == 0

\* The j-th 32-bit word (j >= 1) of an array of doubles: each double is
\* SizeofDouble \div SizeofFloat words, low word first.
WordOfDoubles(vals, j) ==
    LET w == SizeofDouble \div SizeofFloat
        d == (j + w - 1) \div w
    IN  IF j % w = 1 THEN DoubleLoWord(vals[d]) ELSE DoubleHiWord(vals[d])

\* The value, in units of 1/FScale, of the binary32 whose bit pattern is w >= 0:
\* 8 exponent bits (bias 127) over 23 mantissa bits.
FloatOfWord(w) ==
    IF w = 0 THEN 0
    ELSE LET e == w \div Pow2(23)
             m == w % Pow2(23)
             unit == Pow2(23) \div FScale
         IN  IF e >= 127
               THEN ((Pow2(23) + m) * Pow2(e - 127)) \div unit
               ELSE ((Pow2(23) + m) \div Pow2(127 - e)) \div unit

\* static_cast<float>(v) of an integer-valued double.
Downcast(v) == v * FScale

(***************************************************************************)
(* The callers' inputs.                                                    *)
(***************************************************************************)
\* Coordinate i (1-based) of sample point p: p = 1 is the origin, p = 2 the unit
\* point (1,0,0,...), p >= 3 the point (p+2, p+2, ...), so p = 3 is (5,5,5).
Coordinate(p, i) ==
    IF p = 1 THEN 0
    ELSE IF p = 2 THEN (IF i = 1 THEN 1 ELSE 0)
    ELSE p + 2

Samples == 1..MaxPts

\* The lists of distinct sample points, in ascending order, of length 0..MaxPts.
ColumnLists ==
    UNION { { s \in [1..n -> Samples] : \A i \in 1..n, j \in 1..n : i < j => s[i] < s[j] }
            : n \in 0..MaxPts }

\* An Eigen::MatrixXd, column-major: column c is the first `rows` coordinates of
\* sample point cs[c].
Matrix(rows, cs) ==
    [rows |-> rows, cols |-> Len(cs),
     v    |-> [j \in 1..(rows * Len(cs)) |->
                 Coordinate(cs[((j - 1) \div rows) + 1], ((j - 1) % rows) + 1)]]

Matrices == { Matrix(r, cs) : r \in 0..PointDim, cs \in ColumnLists }

NoMatrix == Matrix(0, <<>>)

\* Entry (row i, column c), both 1-based, of matrix m.
At(m, i, c) == m.v[(c - 1) * m.rows + i]

SupportedTypes == {"PointCloud", "TriangleMesh", "HalfEdgeTriangleMesh"}
UnsupportedTypes == {"Image", "Unspecified"}

\* A Geometry: its type tag and, for the supported types, its points_ / vertices_.
Geometries ==
    { [type |-> t, points |-> cs] : t \in SupportedTypes, cs \in ColumnLists }
    \cup { [type |-> t, points |-> <<>>] : t \in UnsupportedTypes }

\* A query vector (Eigen::Vector3d or Eigen::VectorXd): one column of `rows` doubles.
Query(rows, p) == [rows |-> rows, cols |-> 1, v |-> [i \in 1..rows |-> Coordinate(p, i)]]

Queries == { Query(r, p) : r \in 0..PointDim, p \in Samples }

Ks == (-1)..(MaxPts + 1)
Radii == 0..MaxRadius

\* A KDTreeSearchParam: its search type and the field of its subclass.
SearchParams ==
    { [type |-> "Knn", knn_ |-> k, radius_ |-> 0] : k \in Ks }
    \cup { [type |-> "Radius", knn_ |-> 0, radius_ |-> r] : r \in Radii }
    \cup { [type |-> "Hybrid", knn_ |-> 0, radius_ |-> 0] }

(***************************************************************************)
(* The backend: faiss::IndexFlatL2.                                        *)
(***************************************************************************)
\* The empty unique_ptr.
NoIndex == [null |-> TRUE, d |-> 0, ntotal |-> 0, xb |-> <<>>]

\* new faiss::IndexFlatL2(d)
IndexFlatL2(d) == [null |-> FALSE, d |-> d, ntotal |-> 0, xb |-> <<>>]

\* index->add(n, x): appends the n vectors of d floats at x.
Add(ix, n, x) ==
    [ix EXCEPT !.ntotal = @ + n, !.xb = @ \o SubSeq(x, 1, n * ix.d)]

RECURSIVE L2SqrFrom(_, _, _, _, _)
L2SqrFrom(ix, i, x, j, acc) ==
    IF j > ix.d THEN acc
    ELSE LET diff == ix.xb[i * ix.d + j] - x[j]
         IN  L2SqrFrom(ix, i, x, j + 1, acc + diff * diff)

\* The squared L2 distance, in units of 1/FScale2, from the query floats x to
\* stored vector i (0-based).
L2Sqr(ix, i, x) == L2SqrFrom(ix, i, x, 1, 0)

\* How many stored vectors come before vector i in ascending distance (ties by id).
Rank(ix, i, x) ==
    Cardinality({ j \in 0..(ix.ntotal - 1) :
                    \/ L2Sqr(ix, j, x) < L2Sqr(ix, i, x)
                    \/ (L2Sqr(ix, j, x) = L2Sqr(ix, i, x) /\ j < i) })

\* index->search(1, x, k, distances, labels): the k nearest stored vectors in
\* ascending squared distance; NoLabel / HugeDistance where fewer than k exist.
\* A label is one element of the caller's indices buffer (the width of faiss's
\* label type is not modelled).
IndexSearch(ix, x, k) ==
    LET nth(p) == CHOOSE i \in 0..(ix.ntotal - 1) : Rank(ix, i, x) = p - 1
    IN  [labels    |-> [p \in 1..k |-> IF p <= ix.ntotal THEN nth(p) ELSE NoLabel],
         distances |-> [p \in 1..k |-> IF p <= ix.ntotal
                                          THEN L2Sqr(ix, nth(p), x)
                                          ELSE HugeDistance]]

RECURSIVE InRange(_, _, _, _)
InRange(ix, x, threshold, i) ==
    IF i >= ix.ntotal THEN <<>>
    ELSE (IF L2Sqr(ix, i, x) < threshold THEN <<i>> ELSE <<>>)
         \o InRange(ix, x, threshold, i + 1)

\* index->range_search(1, x, radius, &result): every stored vector whose squared
\* distance is < radius, in storage order (faiss compares the squared distance
\* with the radius argument as given).
IndexRangeSearch(ix, x, radius) ==
    LET hit == InRange(ix, x, radius * FScale2, 0)
    IN  [labels    |-> hit,
         distances |-> [p \in 1..Len(hit) |-> L2Sqr(ix, hit[p], x)]]

(***************************************************************************)
(* KnnFaiss.                                                               *)
(***************************************************************************)
\* memcpy(data_.data(), data.data(), n * sizeof(float)) from an array of doubles:
\* the first n * sizeof(float) bytes of the source, read back as n floats.
Memcpy(vals, n) ==
    LET bytes == n * SizeofFloat
    IN  [j \in 1..(bytes \div SizeofFloat) |-> FloatOfWord(WordOfDoubles(vals, j))]

\* Values a read past the end of the query's storage may produce.
Garbage == {0, FScale}

\* The d floats the backend reads at query.data(), a pointer to doubles handed
\* over as a pointer to floats: either build converts the elements, or reads the
\* doubles' bytes as floats; what lies past the query's storage is arbitrary.
QueryFloats(q, d) ==
    { [j \in 1..d |-> IF j <= q.rows THEN Downcast(q.v[j]) ELSE g[j]]
      : g \in [1..d -> Garbage] }
    \cup
    { [j \in 1..d |-> IF j <= q.rows * (SizeofDouble \div SizeofFloat)
                        THEN FloatOfWord(WordOfDoubles(q.v, j)) ELSE g[j]]
      : g \in [1..d -> Garbage] }

\* What a search call hands back: its return value, the entries it wrote to the
\* caller's buffers, and how often it invoked the backend.
Failed == [ret |-> Fail, indices |-> <<>>, distance2 |-> <<>>, calls |-> 0]

\* The early-return condition of SearchKNN.
KnnRejectsNoBuiltCheck(q, knn) == q.rows # dimension_ \/ knn < 0
KnnRejectsNoDimensionCheck(q, knn) == data_ = <<>> \/ dataset_size_ <= 0 \/ knn < 0
KnnRejectsNoCountCheck(q, knn) ==
    data_ = <<>> \/ dataset_size_ <= 0 \/ q.rows # dimension_
KnnRejects(q, knn) ==
    data_ = <<>> \/ dataset_size_ <= 0 \/ q.rows # dimension_ \/ knn < 0

\* The early-return condition of SearchRadius.
RadiusRejects(q) ==
    data_ = <<>> \/ dataset_size_ <= 0 \/ q.rows # dimension_

\* The possible outcomes of SearchKNN(query, knn, indices, distance2).
SearchKNNOutcomes(q, knn) ==
    IF KnnRejects(q, knn) THEN {Failed}
    ELSE { LET r == IndexSearch(index, x, knn)
           IN  [ret |-> knn, indices |-> r.labels, distance2 |-> r.distances,
                calls |-> 1]
           : x \in QueryFloats(q, index.d) }

\* The possible outcomes of SearchRadius(query, radius, indices, distance2).
SearchRadiusOutcomes(q, radius) ==
    IF RadiusRejects(q) THEN {Failed}
    ELSE { LET r == IndexRangeSearch(index, x, radius)
           IN  [ret |-> RadiusDone, indices |-> r.labels, distance2 |-> r.distances,
                calls |-> 1]
           : x \in QueryFloats(q, index.d) }

\* The possible outcomes of Search(query, param, indices, distance2).
SearchOutcomesHybridAsKnn(q, param) ==
    IF param.type = "Radius" THEN SearchRadiusOutcomes(q, param.radius_)
    ELSE SearchKNNOutcomes(q, param.knn_)
SearchOutcomes(q, param) ==
    CASE param.type = "Knn" -> SearchKNNOutcomes(q, param.knn_)
      [] param.type = "Radius" -> SearchRadiusOutcomes(q, param.radius_)
      [] OTHER -> {Failed}

\* The call `o` with arguments `a` has returned.
Returns(o, a) == pc' = "returned" /\ op' = o /\ arg' = a

\* A search call returns outcome r and leaves the object alone.
Hands(r) ==
    /\ ret' = r.ret
    /\ indices' = r.indices
    /\ distance2' = r.distance2
    /\ backend_calls' = r.calls
    /\ UNCHANGED <<object, ok, source, ever_built, empty_failed>>

\* SetRawData(data)
SetRawData(m) ==
    /\ dimension_' = m.rows
    /\ dataset_size_' = m.cols
    /\ IF m.rows = 0 \/ m.cols = 0
         THEN /\ ok' = FALSE
              /\ UNCHANGED <<data_, index, source, ever_built>>
              /\ empty_failed' = TRUE
         ELSE /\ data_' = Memcpy(m.v, m.cols * m.rows)
              /\ index' = Add(IndexFlatL2(m.rows), m.cols, data_')
              /\ ok' = TRUE
              /\ source' = m
              /\ ever_built' = TRUE
              /\ empty_failed' = FALSE
    /\ UNCHANGED <<ret, indices, distance2, backend_calls>>

\* The default branch of SetGeometry's switch.
RejectGeometryAfterExtracting ==
    SetRawData(Matrix(PointDim, <<>>))
RejectGeometry ==
    /\ ok' = FALSE
    /\ UNCHANGED <<object, source, ever_built, empty_failed>>
    /\ UNCHANGED <<ret, indices, distance2, backend_calls>>

\* KnnFaiss::KnnFaiss(): nothing ingested, an empty buffer, no handle.  The
\* constructor's body is empty; the two size members start at 0, the unbuilt
\* index of the data model.
Init ==
    /\ dimension_ = 0
    /\ dataset_size_ = 0
    /\ data_ = <<>>
    /\ index = NoIndex
    /\ pc = "idle"
    /\ op = "none"
    /\ arg = <<>>
    /\ ok = FALSE
    /\ ret = 0
    /\ indices = <<>>
    /\ distance2 = <<>>
    /\ backend_calls = 0
    /\ source = NoMatrix
    /\ ever_built = FALSE
    /\ empty_failed = FALSE

SetMatrixData ==
    /\ pc = "idle"
    /\ \E m \in Matrices :
         /\ SetRawData(m)
         /\ Returns("SetMatrixData", [data |-> m])

SetFeature ==
    /\ pc = "idle"
    /\ \E m \in Matrices :
         /\ SetRawData(m)
         /\ Returns("SetFeature", [data |-> m])

SetGeometry ==
    /\ pc = "idle"
    /\ \E g \in Geometries :
         /\ IF g.type \in SupportedTypes
              THEN SetRawData(Matrix(PointDim, g.points))
              ELSE RejectGeometry
         /\ Returns("SetGeometry", [geometry |-> g])

Search ==
    /\ pc = "idle"
    /\ \E q \in Queries, param \in SearchParams :
         /\ \E r \in SearchOutcomes(q, param) : Hands(r)
         /\ Returns("Search", [query |-> q, param |-> param])

SearchKNN ==
    /\ pc = "idle"
    /\ \E q \in Queries, knn \in Ks :
         /\ \E r \in SearchKNNOutcomes(q, knn) : Hands(r)
         /\ Returns("SearchKNN", [query |-> q, knn |-> knn])

SearchRadius ==
    /\ pc = "idle"
    /\ \E q \in Queries, radius \in Radii :
         /\ \E r \in SearchRadiusOutcomes(q, radius) : Hands(r)
         /\ Returns("SearchRadius", [query |-> q, radius |-> radius])

\* The caller has read the results; its buffers go out of scope.
Release ==
    /\ pc = "returned"
    /\ pc' = "idle"
    /\ op' = "none"
    /\ arg' = <<>>
    /\ ok' = FALSE
    /\ ret' = 0
    /\ indices' = <<>>
    /\ distance2' = <<>>
    /\ backend_calls' = 0
    /\ UNCHANGED <<object, source, ever_built, empty_failed>>

Next ==
    \/ SetMatrixData
    \/ SetFeature
    \/ SetGeometry
    \/ Search
    \/ SearchKNN
    \/ SearchRadius
    \/ Release

Spec == Init /\ [][Next]_vars

(***************************************************************************)
(* Vocabulary of the properties.                                           *)
(***************************************************************************)
SearchOps == {"Search", "SearchKNN", "SearchRadius"}

\* The preconditions on the index that a search states: a non-empty backing
\* store and a positive data set size.
Built == data_ # <<>> /\ dataset_size_ > 0

\* What the call that has just returned handed back.
Outcome ==
    [ret |-> ret, indices |-> indices, distance2 |-> distance2, calls |-> backend_calls]

\* The index holds the points of the last successful ingestion and no empty
\* ingestion has failed since.
HoldsSource == ever_built /\ ~empty_failed

\* The squared Euclidean distance, in units of 1/FScale2, from query q to column
\* c (1-based) of matrix m, computed on the values the caller ingested.
RECURSIVE TrueL2SqrFrom(_, _, _, _, _)
TrueL2SqrFrom(m, c, q, i, acc) ==
    IF i > m.rows THEN acc
    ELSE LET diff == At(m, i, c) - q.v[i]
         IN  TrueL2SqrFrom(m, c, q, i + 1, acc + diff * diff)

TrueL2Sqr(m, c, q) == FScale2 * TrueL2SqrFrom(m, c, q, 1, 0)

Range(s) == { s[p] : p \in 1..Len(s) }

(***************************************************************************)
(* The properties.                                                         *)
(***************************************************************************)
\* C1: an ingestion of a matrix with 0 rows or 0 columns returns false, and every
\* search made after it and before the next successful ingestion returns -1
\* without running the backend on the data ingested earlier.
C1_EmptyIngestionLeavesUnbuilt ==
    /\ (pc = "returned" /\ op \in {"SetMatrixData", "SetFeature"}
          /\ (arg.data.rows = 0 \/ arg.data.cols = 0))
       => ~ok
    /\ (pc = "returned" /\ op \in SearchOps /\ empty_failed)
       => (ret = Fail /\ backend_calls = 0)

\* C2: SetGeometry with an unsupported geometry type returns false and leaves
\* dimension_, dataset_size_, data_ and the backend handle as they were, so every
\* search has the same possible outcomes after the call as before it.
C2_UnsupportedGeometryIsNoOp ==
    [][(pc = "idle" /\ pc' = "returned" /\ op' = "SetGeometry"
          /\ arg'.geometry.type \notin SupportedTypes)
       => /\ ~ok'
          /\ UNCHANGED object
          /\ \A q \in Queries :
               /\ \A k \in Ks : SearchKNNOutcomes(q, k)' = SearchKNNOutcomes(q, k)
               /\ \A r \in Radii :
                    SearchRadiusOutcomes(q, r)' = SearchRadiusOutcomes(q, r)]_vars

\* C2 witness: an unsupported geometry was rejected on an index built before.
C2_Witness ==
    /\ pc = "returned" /\ op = "SetGeometry"
    /\ arg.geometry.type \in UnsupportedTypes
    /\ ~ok
    /\ Built /\ ~index.null

\* C3: the backend is invoked only once some ingestion has returned true and a
\* handle exists; on an index with no successful ingestion every search returns
\* -1 without invoking the backend.
C3_BackendOnlyAfterBuild ==
    /\ backend_calls > 0 => (ever_built /\ ~index.null)
    /\ (pc = "returned" /\ op \in SearchOps /\ ~ever_built)
       => (ret = Fail /\ backend_calls = 0 /\ index.null)

\* C3 witness: a search on an index whose only ingestion failed returned -1.
C3_Witness ==
    /\ pc = "returned" /\ op \in SearchOps
    /\ ~ever_built /\ empty_failed
    /\ dataset_size_ > 0
    /\ ret = Fail /\ backend_calls = 0

C5_KnnFindsNearestIngested ==
    (pc = "returned" /\ op = "SearchKNN" /\ HoldsSource
       /\ arg.query.rows = source.rows /\ arg.knn \in 0..source.cols)
    => /\ Len(indices) = arg.knn /\ Len(distance2) = arg.knn
       /\ \A p \in 1..arg.knn :
            /\ indices[p] \in 0..(source.cols - 1)
            /\ distance2[p] = TrueL2Sqr(source, indices[p] + 1, arg.query)
       /\ \A p \in 1..arg.knn, r \in 1..arg.knn :
            p < r => (distance2[p] <= distance2[r] /\ indices[p] # indices[r])
       /\ \A c \in 1..source.cols, p \in 1..arg.knn :
            (c - 1) \notin Range(indices)
            => TrueL2Sqr(source, c, arg.query) >= distance2[p]

\* C6: on an index holding the ingested points, SearchRadius with a matching
\* query and radius r >= 0 returns 1 and its result holds exactly the ingested
\* points whose squared distance to the query is <= r * r.
C6_RadiusFindsIngestedWithin ==
    (pc = "returned" /\ op = "SearchRadius" /\ HoldsSource
       /\ arg.query.rows = source.rows)
    => /\ ret = RadiusDone
       /\ Range(indices) =
            { c - 1 : c \in { c \in 1..source.cols :
                TrueL2Sqr(source, c, arg.query)
                  <= arg.radius * arg.radius * FScale2 } }

C8_SearchDispatches ==
    (pc = "returned" /\ op = "Search")
    => CASE arg.param.type = "Knn" ->
              Outcome \in SearchKNNOutcomes(arg.query, arg.param.knn_)
         [] arg.param.type = "Radius" ->
              Outcome \in SearchRadiusOutcomes(arg.query, arg.param.radius_)
         [] OTHER -> Outcome = Failed

\* C8 witness: a Hybrid search on a built index with a matching query returned -1.
C8_Witness ==
    /\ pc = "returned" /\ op = "Search"
    /\ arg.param.type = "Hybrid"
    /\ Built /\ arg.query.rows = dimension_
    /\ ret = Fail /\ backend_calls = 0

\* C9: the buffer and the backend handle are in sync: a handle exists exactly
\* when the buffer is non-empty, it holds exactly the buffer's points, and its
\* dimensionality and point count are dimension_ and dataset_size_.
C9_BufferAndHandleInSync ==
    /\ index.null <=> data_ = <<>>
    /\ ~index.null =>
         /\ index.xb = data_
         /\ index.d = dimension_
         /\ index.ntotal = dataset_size_

\* C10: whenever data_ is non-empty, dimension_ > 0, dataset_size_ > 0 and data_
\* holds exactly dimension_ * dataset_size_ values.
C10_BuiltHasPositiveShape ==
    data_ # <<>> =>
        /\ dimension_ > 0
        /\ dataset_size_ > 0
        /\ Len(data_) = dimension_ * dataset_size_

====
